---- MODULE Spec2Model ----
(***************************************************************************)
(* PointerJS: the Pointer renderer (pointer.ts) and the FlowManager        *)
(* sequencer (flow.ts), as one state machine driven by the browser's event *)
(* loop: public calls, clicks, key presses, timers and animation frames.   *)
(***************************************************************************)
EXTENDS Integers, Sequences, FiniteSets, TLC

(***************************************************************************)
(* Bounds of the model.                                                    *)
(***************************************************************************)
\* longest step list handed to start
MaxSteps == 2
\* most click listeners of the flow attached to one element
MaxListeners == 2
\* most calls of start in one behaviour
MaxStarts == 2
\* most 300 ms move timers pending at once
MaxTimers == 1
\* the resolution of time within one animation: a frame finds the elapsed
\* fraction (now - startTime) / duration at k / AnimTicks, k in 1..AnimTicks
AnimTicks == 1

(***************************************************************************)
(* The page: the environment the library runs in.                          *)
(***************************************************************************)
\* window.innerWidth, window.innerHeight and the height of the document
ViewportWidth == 400
ViewportHeight == 300
DocHeight == 700

\* the elements of the document; the selector "#missing" matches none
Elements == {"#a", "#b"}
Selectors == Elements \cup {"#missing"}

\* document.querySelector(selector): the element, or "null"
querySelector(selector) == IF selector \in Elements THEN selector ELSE "null"

\* where each element lies in the document (page coordinates)
PageRect(el) ==
    IF el = "#a" THEN [left |-> 20, top |-> 20, right |-> 120, bottom |-> 50]
    ELSE [left |-> 300, top |-> 240, right |-> 396, bottom |-> 280]

\* target.getBoundingClientRect(): viewport coordinates at scroll offset scrollY
getBoundingClientRect(el, scrollY) ==
    LET r == PageRect(el) IN
    [left |-> r.left, right |-> r.right,
     top |-> r.top - scrollY, bottom |-> r.bottom - scrollY]

\* the note bubble's layout size for a text (noteEl.offsetWidth / offsetHeight)
offsetWidth(text) == IF text = "" THEN 0 ELSE 120
offsetHeight(text) == IF text = "" THEN 0 ELSE 40

\* window.scrollTo({top}): the browser keeps the offset inside the document
scrollTo(top) ==
    IF top < 0 THEN 0
    ELSE IF top > DocHeight - ViewportHeight THEN DocHeight - ViewportHeight
    ELSE top

Min(a, b) == IF a < b THEN a ELSE b
Max(a, b) == IF a > b THEN a ELSE b

(***************************************************************************)
(* Program constants.                                                      *)
(***************************************************************************)
\* options.pointerSize ?? 32
pointerSize == 32
\* const margin = 8
margin == 8
\* let noteHeight = 48
DefaultNoteHeight == 48
\* noteEl.style.left = '-9999px': where the note is measured, off screen
OffScreen == -9999

\* the keys a keydown event may carry
Keys == {"Enter", "ArrowRight", "ArrowLeft", "Escape", "Tab"}

\* the steps a caller may list: selector, note, optional url ("" when absent)
StepKinds ==
    { [element |-> "#a", note |-> "A", url |-> ""],
      [element |-> "#b", note |-> "B", url |-> ""],
      [element |-> "#missing", note |-> "X", url |-> ""] }

\* a step of a tour over several pages
UrlStepKinds ==
    { [element |-> "#a", note |-> "P", url |-> "/page1"] }

\* the arrays of length 0..MaxSteps with steps of kinds
\* entries of an array that are no usable steps: null, and a step whose
\* selector is the empty string
NullEntry == [element |-> "null", note |-> "null", url |-> "null"]

MalformedStepKinds == {NullEntry, [element |-> "", note |-> "E", url |-> ""]}

\* document.querySelector throws a SyntaxError for a selector it cannot parse
ValidSelector(selector) == selector # ""

Arrays(kinds) == UNION { [1..n -> kinds] : n \in 0..MaxSteps }

\* the step lists of a tour on one page
StepLists == Arrays(StepKinds)

VARIABLES
    fm,     \* the FlowManager: steps, currentStep, running, pointer, keyHandler, _prevOverflow
    ptr,    \* the Pointer: position, animating flag, overlay elements, running animation
    env,    \* the page: body overflow, listeners, timers, scroll offset, location
    calls,  \* what the handler that ran last called: show, moveToElement, hide, warn
    starts, \* how often start has been called
    moveLog, \* the steps moveToElement was called for since start, in order
    probe   \* one placement computed on its own: its inputs and its results

vars == <<fm, ptr, env, calls, starts, moveLog, probe>>

\* the whole state as one value, which the operations below transform
State == [fm |-> fm, ptr |-> ptr, env |-> env, calls |-> calls]

(***************************************************************************)
(* Pointer (pointer.ts).                                                   *)
(***************************************************************************)
\* no animation closure is alive
NoAnim ==
    [x |-> 0, y |-> 0, note |-> "", isFirstStep |-> FALSE, flip |-> FALSE,
     startX |-> 0, startY |-> 0, noteWidth |-> 0, noteHeight |-> 0, k |-> 0]

\* the options a caller passes: pointerSize absent (<<>>) or given (<<n>>)
NoOptions == [pointerSize |-> <<>>]

PointerOptions == {NoOptions, [pointerSize |-> <<36>>]}

\* new Pointer(options): the options with their defaults filled in, the
\* overlay's elements and the pointer at the centre of the viewport
NewPointer(options) ==
    [options |-> [pointerSize |-> IF options.pointerSize = <<>>
                                  THEN pointerSize
                                  ELSE options.pointerSize[1]],
     currentX |-> ViewportWidth \div 2,
     currentY |-> ViewportHeight \div 2,
     animating |-> FALSE,
     pointerEl |-> [display |-> "", left |-> ViewportWidth \div 2,
                    top |-> ViewportHeight \div 2, transform |-> ""],
     noteEl |-> [display |-> "none", textContent |-> "", visibility |-> "",
                 opacity |-> "", left |-> 0, top |-> 0],
     anim |-> NoAnim]

\* one more call recorded for the handler that is running
Called(s, op, arg) ==
    [s EXCEPT !.calls = Append(@, [op |-> op, arg |-> arg, step |-> s.fm.currentStep])]

\* Pointer.hide()
hide(s) ==
    [Called(s, "hide", "") EXCEPT !.ptr.pointerEl.display = "none",
                                  !.ptr.noteEl.display = "none"]

\* show that puts the pointer back at the centre of the viewport
show_Recentres(s) ==
    [Called(s, "show", "") EXCEPT !.ptr.pointerEl.display = "block",
                                  !.ptr.currentX = ViewportWidth \div 2,
                                  !.ptr.currentY = ViewportHeight \div 2]

\* Pointer.show()
show(s) ==
    [Called(s, "show", "") EXCEPT !.ptr.pointerEl.display = "block"]

\* setInitialPosition that also shows the pointer
PointerSetInitialPosition_Shows(s, x, y) ==
    [s EXCEPT !.ptr.currentX = x, !.ptr.currentY = y,
              !.ptr.pointerEl.left = x, !.ptr.pointerEl.top = y,
              !.ptr.pointerEl.display = "block"]

\* Pointer.setInitialPosition(x, y)
PointerSetInitialPosition(s, x, y) ==
    [s EXCEPT !.ptr.currentX = x, !.ptr.currentY = y,
              !.ptr.pointerEl.left = x, !.ptr.pointerEl.top = y]

\* the note measured off screen: text set, laid out, invisible
Measured(noteEl, note) ==
    [noteEl EXCEPT !.textContent = note, !.display = "block",
                   !.visibility = "hidden", !.opacity = "0",
                   !.left = OffScreen, !.top = OffScreen]

\* Pointer.moveToElement(target, note, isFirstStep): scrolls the target into
\* view if it lies above or below the viewport and arms the 300 ms timer
moveToElement(s, target, note, isFirstStep) ==
    LET rect == getBoundingClientRect(target, s.env.scrollY)
        scrolled ==
            IF rect.top < 0
            THEN scrollTo(s.env.scrollY + rect.top - 100)
            ELSE IF rect.bottom > ViewportHeight
            THEN scrollTo(s.env.scrollY + rect.bottom - ViewportHeight + 100)
            ELSE s.env.scrollY
        c == Called(s, "moveToElement", target)
    IN  [c EXCEPT !.env.scrollY = scrolled,
                  !.env.moveTimers =
                      Append(@, [target |-> target, note |-> note,
                                 isFirstStep |-> isFirstStep])]

\* the flip decision of the timer callback: the note goes above the pointer
\* when it would not fit below the target
Flip(rect, noteHeight, size, viewportHeight) ==
    rect.bottom + (size + 8) + noteHeight > viewportHeight - margin

\* pointerX without the clamp
PointerX_Unclamped(rect, size, viewportWidth) == rect.right - size

\* the pointer's target position, clamped to the viewport margins
PointerX(rect, size, viewportWidth) ==
    Max(margin, Min(rect.right - size, viewportWidth - size - margin))

PointerY(rect, flip, size, viewportHeight) ==
    Max(margin,
        Min(IF flip THEN rect.top - size - margin ELSE rect.bottom + margin,
            viewportHeight - size - margin))

\* Pointer.animateTo(x, y, note, isFirstStep, flip)
animateTo(s, x, y, note, isFirstStep, flip) ==
    IF s.ptr.animating THEN s
    ELSE
        LET n1 == IF note # "" THEN Measured(s.ptr.noteEl, note) ELSE s.ptr.noteEl
            n2 == IF isFirstStep /\ note # ""
                  THEN [n1 EXCEPT !.opacity = "0", !.visibility = "hidden"]
                  ELSE IF note # ""
                  THEN [n1 EXCEPT !.opacity = "1", !.visibility = "visible"]
                  ELSE n1
        IN  [s EXCEPT !.ptr.animating = TRUE,
                      !.ptr.noteEl = n2,
                      !.ptr.anim =
                          [x |-> x, y |-> y, note |-> note,
                           isFirstStep |-> isFirstStep, flip |-> flip,
                           startX |-> s.ptr.currentX, startY |-> s.ptr.currentY,
                           noteWidth |-> offsetWidth(note),
                           noteHeight |-> offsetHeight(note), k |-> 0]]

\* the callback of moveToElement's 300 ms timer
MoveTimerCallback(s, target, note, isFirstStep) ==
    LET updatedRect == getBoundingClientRect(target, s.env.scrollY)
        measured == IF note # "" THEN Measured(s.ptr.noteEl, note) ELSE s.ptr.noteEl
        noteHeight ==
            IF note # "" /\ offsetHeight(note) # 0
            THEN offsetHeight(note) ELSE DefaultNoteHeight
        size == s.ptr.options.pointerSize
        flip == Flip(updatedRect, noteHeight, size, ViewportHeight)
    IN  animateTo([s EXCEPT !.ptr.noteEl = measured],
                  PointerX(updatedRect, size, ViewportWidth),
                  PointerY(updatedRect, flip, size, ViewportHeight),
                  note, isFirstStep, flip)

\* ease(t) at t = k / AnimTicks, as a numerator over AnimTicks * AnimTicks:
\* t < 0.5 ? 2 * t * t : -1 + (4 - 2 * t) * t
EaseNum(k) ==
    IF 2 * k < AnimTicks
    THEN 2 * k * k
    ELSE (4 * AnimTicks - 2 * k) * k - AnimTicks * AnimTicks

\* startX + deltaX * ease(elapsed), to the whole pixel below
Interpolate(start, target, k) ==
    start + ((target - start) * EaseNum(k)) \div (AnimTicks * AnimTicks)

\* the note's left edge for a pointer at curX: to the pointer's right, or
\* pulled back inside the viewport's right edge
NoteLeft(curX, noteWidth, size, viewportWidth) ==
    IF curX + (size + 12) + noteWidth > viewportWidth - margin
    THEN viewportWidth - noteWidth - 12
    ELSE curX + (size + 12)

FlipX(curX, noteWidth, size, viewportWidth) ==
    curX + (size + 12) + noteWidth > viewportWidth - margin

\* the note's top edge: above the pointer when flipped, below it otherwise
NoteTop(curY, noteHeight, flip, size) ==
    IF flip THEN curY - noteHeight - 12 ELSE curY + (size + 8)

Transform(flipX, flipY) ==
    IF flipX /\ flipY THEN "scaleX(-1) scaleY(-1)"
    ELSE IF flipX THEN "scaleX(-1)"
    ELSE IF flipY THEN "scaleY(-1)"
    ELSE ""

\* animate that keeps the busy flag at the last frame
animate_NeverCompletes(s, k) ==
    [s EXCEPT !.ptr.pointerEl.left = Interpolate(s.ptr.anim.startX, s.ptr.anim.x, k),
              !.ptr.pointerEl.top = Interpolate(s.ptr.anim.startY, s.ptr.anim.y, k),
              !.ptr.anim.k = k]

\* animate(now), the frame callback of animateTo, at elapsed = k / AnimTicks
animate(s, k) ==
    LET a == s.ptr.anim
        size == s.ptr.options.pointerSize
        curX == Interpolate(a.startX, a.x, k)
        curY == Interpolate(a.startY, a.y, k)
        p1 == [s.ptr.pointerEl EXCEPT !.left = curX, !.top = curY]
        withNote ==
            LET n1 == [s.ptr.noteEl EXCEPT
                          !.left = NoteLeft(curX, a.noteWidth, size, ViewportWidth),
                          !.top = NoteTop(curY, a.noteHeight, a.flip, size),
                          !.display = "block"]
                n2 == IF ~a.isFirstStep
                      THEN [n1 EXCEPT !.opacity = "1", !.visibility = "visible"]
                      ELSE n1
            IN  [s EXCEPT
                    !.ptr.noteEl = n2,
                    !.ptr.pointerEl =
                        [p1 EXCEPT !.transform =
                            Transform(FlipX(curX, a.noteWidth, size,
                                            ViewportWidth), a.flip)],
                    !.env.revealTimers =
                        IF k = AnimTicks /\ a.isFirstStep THEN @ + 1 ELSE @]
        withoutNote ==
            [s EXCEPT !.ptr.noteEl.display = "none",
                      !.ptr.pointerEl = [p1 EXCEPT !.transform = ""]]
        drawn == IF a.note # "" THEN withNote ELSE withoutNote
    IN  IF k < AnimTicks
        THEN [drawn EXCEPT !.ptr.anim.k = k]
        ELSE [drawn EXCEPT !.ptr.currentX = a.x, !.ptr.currentY = a.y,
                           !.ptr.animating = FALSE, !.ptr.anim = NoAnim]

\* the callback of the 10 ms timer that reveals a first step's note
RevealTimerCallback(s) ==
    [s EXCEPT !.ptr.noteEl.visibility = "visible", !.ptr.noteEl.opacity = "1",
              !.env.revealTimers = @ - 1]

(***************************************************************************)
(* FlowManager (flow.ts).                                                  *)
(***************************************************************************)
\* new FlowManager(pointerOptions, flowOptions)
NewFlowManager(pointerOptions, keyboardNavigation) ==
    [pointerOptions |-> pointerOptions, steps |-> <<>>, pointer |-> "null", currentStep |-> 0, running |-> FALSE,
     keyboardNavigation |-> keyboardNavigation, keyHandler |-> "null",
     prevOverflow |-> "undefined"]

\* stop that leaves the keydown handler on the window
stop_KeepsKeyHandler(s) ==
    LET s0 == Called(s, "stop", IF s.fm.running THEN "running" ELSE "stopped")
        s1 == [s0 EXCEPT !.fm.running = FALSE]
        s2 == IF s1.fm.pointer # "null" THEN hide(s1) ELSE s1
    IN  IF s2.fm.prevOverflow # "undefined"
        THEN [s2 EXCEPT !.env.bodyOverflow = s2.fm.prevOverflow,
                        !.fm.prevOverflow = "undefined"]
        ELSE s2

\* stop that writes _prevOverflow back without looking whether one is saved
stop_RestoresUnsaved(s) ==
    LET s0 == Called(s, "stop", IF s.fm.running THEN "running" ELSE "stopped")
        s1 == [s0 EXCEPT !.fm.running = FALSE]
        s2 == IF s1.fm.pointer # "null" THEN hide(s1) ELSE s1
        s3 == [s2 EXCEPT !.env.bodyOverflow = s2.fm.prevOverflow,
                         !.fm.prevOverflow = "undefined"]
    IN  IF s3.fm.keyHandler # "null"
        THEN [s3 EXCEPT !.env.keydownListeners = @ - 1,
                        !.fm.keyHandler = "null"]
        ELSE s3

\* FlowManager.stop(); the call is recorded with the running flag it found
stop(s) ==
    LET s0 == Called(s, "stop", IF s.fm.running THEN "running" ELSE "stopped")
        s1 == [s0 EXCEPT !.fm.running = FALSE]
        s2 == IF s1.fm.pointer # "null" THEN hide(s1) ELSE s1
        s3 == IF s2.fm.prevOverflow # "undefined"
              THEN [s2 EXCEPT !.env.bodyOverflow = s2.fm.prevOverflow,
                              !.fm.prevOverflow = "undefined"]
              ELSE s2
    IN  IF s3.fm.keyHandler # "null"
        THEN [s3 EXCEPT !.env.keydownListeners = @ - 1,
                        !.fm.keyHandler = "null"]
        ELSE s3

RECURSIVE runStep(_)

\* advanceStep with the index stepped twice
advanceStep_SkipsOne(s) == runStep([s EXCEPT !.fm.currentStep = @ + 2])

\* FlowManager.advanceStep()
advanceStep(s) == runStep([s EXCEPT !.fm.currentStep = @ + 1])

\* FlowManager.goBackStep()
goBackStep(s) ==
    IF s.fm.currentStep > 0
    THEN runStep([s EXCEPT !.fm.currentStep = @ - 1])
    ELSE s

\* runStep that calls the pointer also for a selector matching no element
runStep_MovesToMissing(s) ==
    IF ~s.fm.running \/ s.fm.currentStep >= Len(s.fm.steps)
    THEN stop(s)
    ELSE
        LET step == s.fm.steps[s.fm.currentStep + 1]
        IN  IF step.url # "" /\ s.env.pathname # step.url
            THEN [s EXCEPT !.env.href = step.url,
                           !.env.loadListeners = @ + 1]
            ELSE IF querySelector(step.element) # "null"
            THEN LET moved == moveToElement(show(s), step.element, step.note,
                                            s.fm.currentStep = 0)
                 IN  [Called(moved, "addEventListener", step.element)
                        EXCEPT !.env.clickListeners[step.element] = @ + 1]
            ELSE advanceStep(
                     moveToElement(Called(s, "warn", step.element),
                                   "#a", step.note, s.fm.currentStep = 0))

\* runStep that waits at a selector matching no element instead of advancing
runStep_WaitsAtMissing(s) ==
    IF ~s.fm.running \/ s.fm.currentStep >= Len(s.fm.steps)
    THEN stop(s)
    ELSE
        LET step == s.fm.steps[s.fm.currentStep + 1]
        IN  IF step.url # "" /\ s.env.pathname # step.url
            THEN [s EXCEPT !.env.href = step.url,
                           !.env.loadListeners = @ + 1]
            ELSE IF querySelector(step.element) # "null"
            THEN LET moved == moveToElement(show(s), step.element, step.note,
                                            s.fm.currentStep = 0)
                 IN  [Called(moved, "addEventListener", step.element)
                        EXCEPT !.env.clickListeners[step.element] = @ + 1]
            ELSE Called(s, "warn", step.element)

\* FlowManager.runStep(); reading a field of an entry that is null, and
\* querySelector of an unparsable selector, throw: the exception ends the
\* handler there (runStep is the last call of each of its callers)
runStep(s) ==
    IF ~s.fm.running \/ s.fm.currentStep >= Len(s.fm.steps)
    THEN stop(s)
    ELSE
        LET step == s.fm.steps[s.fm.currentStep + 1]
            el == querySelector(step.element)
        IN  IF step = NullEntry
            THEN Called(s, "throw", "TypeError")
            ELSE IF step.url # "" /\ s.env.pathname # step.url
            THEN [s EXCEPT !.env.href = step.url,
                           !.env.loadListeners = @ + 1]
            ELSE IF ~ValidSelector(step.element)
            THEN Called(s, "throw", "SyntaxError")
            ELSE IF el # "null"
            THEN LET moved == moveToElement(show(s), el, step.note,
                                            s.fm.currentStep = 0)
                 IN  [Called(moved, "addEventListener", el)
                        EXCEPT !.env.clickListeners[el] = @ + 1]
            ELSE advanceStep(Called(s, "warn", step.element))

\* start without the check of its argument
start_NoValidation(s, isArray, steps) ==
    LET s1 == [s EXCEPT !.fm.steps = steps, !.fm.currentStep = 0,
                        !.fm.running = TRUE]
        s2 == IF s1.fm.pointer = "null"
              THEN [s1 EXCEPT !.fm.pointer = "Pointer",
                              !.ptr = NewPointer(s1.fm.pointerOptions),
                              !.env.overlays = @ + 1]
              ELSE s1
        s3 == [s2 EXCEPT !.fm.prevOverflow = s2.env.bodyOverflow,
                         !.env.bodyOverflow = "hidden"]
        s4 == IF s3.fm.keyboardNavigation
              THEN [s3 EXCEPT !.fm.keyHandler = "keyHandler",
                              !.env.keydownListeners = @ + 1]
              ELSE s3
    IN  runStep(s4)

\* FlowManager.start(steps); isArray is Array.isArray(steps)
start(s, isArray, steps) ==
    IF ~isArray \/ Len(steps) = 0
    THEN Called(s, "warn", "No onboarding steps provided.")
    ELSE
        LET s1 == [s EXCEPT !.fm.steps = steps, !.fm.currentStep = 0,
                            !.fm.running = TRUE]
            s2 == IF s1.fm.pointer = "null"
                  THEN [s1 EXCEPT !.fm.pointer = "Pointer",
                                  !.ptr = NewPointer(s1.fm.pointerOptions),
                                  !.env.overlays = @ + 1]
                  ELSE s1
            s3 == [s2 EXCEPT !.fm.prevOverflow = s2.env.bodyOverflow,
                             !.env.bodyOverflow = "hidden"]
            s4 == IF s3.fm.keyboardNavigation
                  THEN [s3 EXCEPT !.fm.keyHandler = "keyHandler",
                                  !.env.keydownListeners = @ + 1]
                  ELSE s3
        IN  runStep(s4)

\* the keydown handler start installs: (e) => { ... }
keyHandler(s, key) ==
    IF ~s.fm.running THEN s
    ELSE IF key \in {"Enter", "ArrowRight"} THEN advanceStep(s)
    ELSE IF key = "ArrowLeft" THEN goBackStep(s)
    ELSE IF key = "Escape" THEN stop(s)
    ELSE s

\* the click listener runStep attaches to its target: next
next(s, el) ==
    advanceStep([s EXCEPT !.env.clickListeners[el] = @ - 1])

\* setInitialPosition that makes a new Pointer on every call
setInitialPosition_AlwaysNew(s, x, y) ==
    PointerSetInitialPosition(
        [s EXCEPT !.fm.pointer = "Pointer",
                  !.ptr = NewPointer(s.fm.pointerOptions),
                  !.env.overlays = @ + 1], x, y)

\* FlowManager.setInitialPosition(x, y)
setInitialPosition(s, x, y) ==
    LET s1 == IF s.fm.pointer = "null"
              THEN [s EXCEPT !.fm.pointer = "Pointer",
                             !.ptr = NewPointer(s.fm.pointerOptions),
                             !.env.overlays = @ + 1]
              ELSE s
    IN  PointerSetInitialPosition(s1, x, y)

\* startOnboarding(steps, pointerOptions, event, flowOptions): the module's
\* flowManager is made on the first call and is the manager fm from then on;
\* hasEvent says whether a triggering event was given, kb is
\* flowOptions.keyboardNavigation !== false
startOnboarding(s, steps, pointerOptions, hasEvent, clientX, clientY, kb) ==
    LET s0 == IF s.env.flowManager = "null"
              THEN [s EXCEPT !.env.flowManager = "FlowManager",
                             !.fm = NewFlowManager(pointerOptions, kb)]
              ELSE s
        s1 == IF hasEvent
              THEN setInitialPosition(s0, clientX - 16, clientY - 16)
              ELSE s0
    IN  start(s1, TRUE, steps)

(***************************************************************************)
(* The event loop: dispatch of events to the listeners attached.           *)
(***************************************************************************)
RECURSIVE InvokeNext(_, _, _)
\* n of the click listeners of el invoked one after the other
InvokeNext(s, el, n) ==
    IF n = 0 THEN s ELSE InvokeNext(next(s, el), el, n - 1)

\* a click on el: the listeners attached when the dispatch begins are
\* invoked; one attached during the dispatch is not
DispatchClick(s, el) == InvokeNext(s, el, s.env.clickListeners[el])

RECURSIVE InvokeKeyHandlers(_, _, _)
InvokeKeyHandlers(s, key, n) ==
    IF n = 0 THEN s ELSE InvokeKeyHandlers(keyHandler(s, key), key, n - 1)

\* a keydown on the window: the handlers of earlier starts that were never
\* removed come first, the manager's current handler last; a handler that
\* stop() removed during the dispatch is not invoked
DispatchKeydown(s, key) ==
    LET current == IF s.fm.keyHandler # "null" THEN 1 ELSE 0
        s1 == InvokeKeyHandlers(s, key, s.env.keydownListeners - current)
    IN  IF current = 1 /\ s1.fm.keyHandler # "null"
        THEN keyHandler(s1, key)
        ELSE s1

(***************************************************************************)
(* Initial state and actions.                                              *)
(***************************************************************************)
\* no placement is computed on its own
NoProbe == [phase |-> "none"]

\* document.body.style.overflow as the page itself set it
PageOverflow == "auto"

\* the paths the page may be loaded at
Paths == {"/", "/page1"}

NewPage(pathname) ==
    [bodyOverflow |-> PageOverflow,
     keydownListeners |-> 0,
     clickListeners |-> [e \in Elements |-> 0],
     moveTimers |-> <<>>,
     revealTimers |-> 0,
     runTimers |-> 0,
     loadListeners |-> 0,
     scrollY |-> 0,
     pathname |-> pathname,
     href |-> "",
     readyState |-> "loading",
     flowManager |-> "null",
     overlays |-> 0]

Init ==
    /\ fm \in {NewFlowManager(NoOptions, k) : k \in BOOLEAN}
    /\ ptr = NewPointer(NoOptions)
    /\ env = NewPage("/")
    /\ calls = <<>>
    /\ starts = 0
    /\ moveLog = <<>>
    /\ probe = NoProbe

\* the state a handler starts from: nothing called yet
Begin == [State EXCEPT !.calls = <<>>]

\* the resources the model bounds
Bounded(s) ==
    /\ \A e \in Elements : s.env.clickListeners[e] <= MaxListeners
    /\ s.env.keydownListeners <= MaxListeners
    /\ Len(s.env.moveTimers) <= MaxTimers
    /\ s.env.revealTimers <= MaxTimers
    /\ s.env.runTimers <= MaxTimers
    /\ s.env.loadListeners <= MaxTimers

Commit(s) ==
    /\ Bounded(s)
    /\ fm' = s.fm
    /\ ptr' = s.ptr
    /\ env' = s.env
    /\ calls' = s.calls

\* the caller calls start(steps) with one of the arrays lists
StartWith(lists) ==
    /\ starts < MaxStarts
    /\ starts' = starts + 1
    /\ \E steps \in lists : Commit(start(Begin, TRUE, steps))

\* the caller calls start(steps) with an array
Start == StartWith(StepLists)

\* the caller calls start with something that is no array
StartMalformed ==
    /\ Commit(start(Begin, FALSE, <<>>))
    /\ UNCHANGED starts

\* the caller calls stop()
Stop ==
    /\ Commit(stop(Begin))
    /\ UNCHANGED starts

\* the user clicks the element el
ClickOn(el) ==
    /\ Commit(DispatchClick(Begin, el))
    /\ UNCHANGED starts

\* the user clicks an element of the page
Click == \E el \in Elements : ClickOn(el)

\* the user presses the key
Press(key) ==
    /\ Commit(DispatchKeydown(Begin, key))
    /\ UNCHANGED starts

\* the user presses a key
Keydown == \E key \in Keys : Press(key)

\* the oldest 300 ms move timer fires
MoveTimer ==
    /\ env.moveTimers # <<>>
    /\ LET t == Head(env.moveTimers)
       IN  Commit(MoveTimerCallback(
               [Begin EXCEPT !.env.moveTimers = Tail(@)],
               t.target, t.note, t.isFirstStep))
    /\ UNCHANGED starts

\* the browser delivers an animation frame, later than the last one
Frame ==
    /\ ptr.animating
    /\ \E k \in (ptr.anim.k + 1)..AnimTicks : Commit(animate(Begin, k))
    /\ UNCHANGED starts

\* a 10 ms note-reveal timer fires
RevealTimer ==
    /\ env.revealTimers > 0
    /\ Commit(RevealTimerCallback(Begin))
    /\ UNCHANGED starts

\* the document finishes parsing: DOMContentLoaded, once per document; each
\* once-listener of runStep arms its 300 ms timer
DOMContentLoaded ==
    /\ env.readyState = "loading"
    /\ Commit([Begin EXCEPT !.env.readyState = "complete",
                            !.env.runTimers = @ + Begin.env.loadListeners,
                            !.env.loadListeners = 0])
    /\ UNCHANGED starts

\* a timer armed by the DOMContentLoaded listener fires: runStep()
RunTimer ==
    /\ env.runTimers > 0
    /\ Commit(runStep([Begin EXCEPT !.env.runTimers = @ - 1]))
    /\ UNCHANGED starts

\* the navigation window.location.href = url completes: the browser unloads
\* the document and loads the new one, where the script starts afresh
PageLoad ==
    /\ env.href # ""
    /\ fm' = NewFlowManager(fm.pointerOptions, fm.keyboardNavigation)
    /\ ptr' = NewPointer(fm.pointerOptions)
    /\ env' = NewPage(env.href)
    /\ calls' = <<>>
    /\ UNCHANGED starts

\* the log of moves is not kept
NoLog == UNCHANGED <<moveLog, probe>>

Next ==
    \/ Start /\ NoLog
    \/ StartMalformed /\ NoLog
    \/ Stop /\ NoLog
    \/ Click /\ NoLog
    \/ Keydown /\ NoLog
    \/ MoveTimer /\ NoLog
    \/ Frame /\ NoLog
    \/ RevealTimer /\ NoLog

\* a page with tours on it: any calls, clicks and keys, in any order with
\* the pointer's timers and frames
Spec == Init /\ [][Next]_vars

(***************************************************************************)
(* One tour driven only by clicks on the current step's target, over a     *)
(* step list whose targets all exist.                                      *)
(***************************************************************************)
NonEmpty(lists) == { l \in lists : Len(l) > 0 }

ExistingStepKinds == { k \in StepKinds : querySelector(k.element) # "null" }

ClickCurrent ==
    /\ fm.running
    /\ fm.currentStep < Len(fm.steps)
    /\ ClickOn(fm.steps[fm.currentStep + 1].element)

ClickNext ==
    \/ starts = 0 /\ StartWith(NonEmpty(Arrays(ExistingStepKinds))) /\ NoLog
    \/ ClickCurrent /\ NoLog
    \/ MoveTimer /\ NoLog
    \/ Frame /\ NoLog
    \/ RevealTimer /\ NoLog

ClickSpec == Init /\ [][ClickNext]_vars

(***************************************************************************)
(* Start / stop cycles: start is called only on a flow that is not        *)
(* running; clicks, keys and the pointer's timers go on in between.        *)
(***************************************************************************)
CycleNext ==
    \/ ~fm.running /\ Start /\ NoLog
    \/ StartMalformed /\ NoLog
    \/ Stop /\ NoLog
    \/ Click /\ NoLog
    \/ Keydown /\ NoLog
    \/ MoveTimer /\ NoLog
    \/ Frame /\ NoLog
    \/ RevealTimer /\ NoLog

CycleSpec == Init /\ [][CycleNext]_vars

(***************************************************************************)
(* The simple entry point: startOnboarding on the module's manager, with   *)
(* and without a triggering event, and calls on that manager; the user     *)
(* clicks, and leaves the keyboard alone.                                  *)
(***************************************************************************)
\* where the triggering events happen: clientX, clientY
EventPoints == {[x |-> 60, y |-> 40]}

\* startOnboarding(steps, pointerOptions, event, flowOptions) is called
StartOnboardingCall(steps, pointerOptions, hasEvent, clientX, clientY, kb) ==
    /\ starts < MaxStarts
    /\ starts' = starts + 1
    /\ Commit(startOnboarding(Begin, steps, pointerOptions, hasEvent,
                              clientX, clientY, kb))

StartOnboarding ==
    \E steps \in StepLists, pointerOptions \in PointerOptions,
       hasEvent \in BOOLEAN, e \in EventPoints :
        StartOnboardingCall(steps, pointerOptions, hasEvent, e.x, e.y, TRUE)

\* the caller calls setInitialPosition(x, y) of the manager
SetInitialPosition ==
    /\ env.flowManager # "null"
    /\ \E e \in EventPoints : Commit(setInitialPosition(Begin, e.x, e.y))
    /\ UNCHANGED starts

OnboardingInit ==
    /\ fm = NewFlowManager(NoOptions, TRUE)
    /\ ptr = NewPointer(NoOptions)
    /\ env = NewPage("/")
    /\ calls = <<>>
    /\ starts = 0
    /\ moveLog = <<>>
    /\ probe = NoProbe

OnboardingNext ==
    \/ StartOnboarding /\ NoLog
    \/ env.flowManager # "null" /\ Start /\ NoLog
    \/ env.flowManager # "null" /\ Stop /\ NoLog
    \/ SetInitialPosition /\ NoLog
    \/ Click /\ NoLog
    \/ MoveTimer /\ NoLog
    \/ Frame /\ NoLog
    \/ RevealTimer /\ NoLog

OnboardingSpec == OnboardingInit /\ [][OnboardingNext]_vars

(***************************************************************************)
(* The Pointer class used directly: one Pointer, its methods called in any *)
(* order, its timers and frames.                                           *)
(***************************************************************************)
\* the positions setInitialPosition is called with
InitialPositions == {[x |-> 100, y |-> 200]}

\* the notes moveToElement is called with; "" is no note
Notes == {"", "A"}

PointerInit ==
    /\ fm = NewFlowManager(NoOptions, TRUE)
    /\ ptr \in {NewPointer(o) : o \in PointerOptions}
    /\ env = [NewPage("/") EXCEPT !.overlays = 1]
    /\ calls = <<>>
    /\ starts = 0
    /\ moveLog = <<>>
    /\ probe = NoProbe

\* pointer.setInitialPosition(x, y)
PtrSetInitialPositionAt(x, y) ==
    /\ Commit(PointerSetInitialPosition(Begin, x, y))
    /\ UNCHANGED starts

PtrSetInitialPosition ==
    \E e \in InitialPositions : PtrSetInitialPositionAt(e.x, e.y)

\* pointer.hide()
PtrHide ==
    /\ Commit(hide(Begin))
    /\ UNCHANGED starts

\* pointer.show()
PtrShow ==
    /\ Commit(show(Begin))
    /\ UNCHANGED starts

\* pointer.moveToElement(target, note, isFirstStep)
PtrMoveToElement ==
    /\ \E el \in Elements, note \in Notes, isFirstStep \in BOOLEAN :
           Commit(moveToElement(Begin, el, note, isFirstStep))
    /\ UNCHANGED starts

PointerNext ==
    \/ PtrSetInitialPosition /\ NoLog
    \/ PtrHide /\ NoLog
    \/ PtrShow /\ NoLog
    \/ PtrMoveToElement /\ NoLog
    \/ MoveTimer /\ NoLog
    \/ Frame /\ NoLog
    \/ RevealTimer /\ NoLog

PointerSpec == PointerInit /\ [][PointerNext]_vars

\* the browser keeps delivering animation frames to a running animation,
\* and fires the 10 ms timers that are armed
PointerLiveSpec ==
    /\ PointerSpec
    /\ WF_vars(Frame /\ NoLog)
    /\ WF_vars(RevealTimer /\ NoLog)

(***************************************************************************)
(* The placement on its own: the position moveToElement's timer computes   *)
(* for a target rectangle, and the place the frame callback gives the note *)
(* when the pointer has arrived there, over rectangles, viewports, pointer *)
(* sizes and note sizes.                                                   *)
(***************************************************************************)
\* target rectangles as getBoundingClientRect returns them: at the edges of
\* the viewport, inside it, low and tall
Rects ==
    { [left |-> right - 30, top |-> top, right |-> right, bottom |-> top + height] :
        right \in {10, 120, 396, 500}, top \in {-20, 20, 132, 240},
        height \in {30, 260} }

\* window.innerWidth, window.innerHeight
Viewports ==
    { [width |-> 400, height |-> 300], [width |-> 52, height |-> 52],
      [width |-> 40, height |-> 40] }

\* offsetWidth, offsetHeight of the note; no note is 0 by 0
NoteSizes == { [width |-> 0, height |-> 0], [width |-> 120, height |-> 40] }

\* options.pointerSize
PointerSizes == {32, 36}

GeometryInit ==
    /\ fm = NewFlowManager(NoOptions, TRUE)
    /\ ptr = NewPointer(NoOptions)
    /\ env = NewPage("/")
    /\ calls = <<>>
    /\ starts = 0
    /\ moveLog = <<>>
    /\ probe \in { [phase |-> "given", rect |-> r, viewport |-> v, size |-> n,
                     note |-> z, flip |-> FALSE, x |-> 0, y |-> 0,
                     noteLeft |-> 0, noteTop |-> 0] :
                    r \in Rects, v \in Viewports, n \in PointerSizes,
                    z \in NoteSizes }

\* the timer callback of moveToElement computes flip, pointerX and pointerY
PlacePointer ==
    /\ probe.phase = "given"
    /\ LET noteHeight == IF probe.note.height # 0 THEN probe.note.height
                         ELSE DefaultNoteHeight
           flip == Flip(probe.rect, noteHeight, probe.size, probe.viewport.height)
       IN  probe' = [probe EXCEPT
                        !.phase = "placed",
                        !.flip = flip,
                        !.x = PointerX(probe.rect, probe.size, probe.viewport.width),
                        !.y = PointerY(probe.rect, flip, probe.size,
                                       probe.viewport.height)]
    /\ UNCHANGED <<fm, ptr, env, calls, starts, moveLog>>

\* the last frame of the animation places the note for the pointer at (x, y)
PlaceNote ==
    /\ probe.phase = "placed"
    /\ probe.note.width # 0
    /\ probe' = [probe EXCEPT
                    !.phase = "drawn",
                    !.noteLeft = NoteLeft(probe.x, probe.note.width, probe.size,
                                          probe.viewport.width),
                    !.noteTop = NoteTop(probe.y, probe.note.height, probe.flip,
                                        probe.size)]
    /\ UNCHANGED <<fm, ptr, env, calls, starts, moveLog>>

GeometryNext ==
    \/ PlacePointer
    \/ PlaceNote

GeometrySpec == GeometryInit /\ [][GeometryNext]_vars

(***************************************************************************)
(* One tour over an array that may hold entries that are no usable steps.  *)
(***************************************************************************)
AnyArrays == Arrays(StepKinds \cup MalformedStepKinds)

MalformedNext ==
    \/ starts = 0 /\ StartWith(AnyArrays) /\ NoLog
    \/ StartMalformed /\ NoLog
    \/ Stop /\ NoLog
    \/ Click /\ NoLog
    \/ Keydown /\ NoLog
    \/ MoveTimer /\ NoLog
    \/ Frame /\ NoLog
    \/ RevealTimer /\ NoLog

MalformedSpec == Init /\ [][MalformedNext]_vars

(***************************************************************************)
(* Start / stop cycles driven by clicks alone: start is called only on a   *)
(* flow that is not running, and no key is pressed.                        *)
(***************************************************************************)
RestartNext ==
    \/ ~fm.running /\ Start /\ NoLog
    \/ Stop /\ NoLog
    \/ Click /\ NoLog
    \/ MoveTimer /\ NoLog
    \/ Frame /\ NoLog
    \/ RevealTimer /\ NoLog

RestartSpec == Init /\ [][RestartNext]_vars

(***************************************************************************)
(* One tour, started once, with clicks anywhere and any keys, in any order *)
(* with the pointer's timers and frames.                                   *)
(***************************************************************************)
TourNext ==
    \/ starts = 0 /\ Start /\ NoLog
    \/ Click /\ NoLog
    \/ Keydown /\ NoLog
    \/ MoveTimer /\ NoLog
    \/ Frame /\ NoLog
    \/ RevealTimer /\ NoLog

TourSpec == Init /\ [][TourNext]_vars

(***************************************************************************)
(* One tour driven forward: clicks anywhere and Enter / ArrowRight, no     *)
(* back-navigation and no restart; step lists with and without urls.       *)
(***************************************************************************)
NavInit ==
    /\ fm \in {NewFlowManager(NoOptions, k) : k \in BOOLEAN}
    /\ ptr = NewPointer(NoOptions)
    /\ env \in {NewPage(p) : p \in Paths}
    /\ calls = <<>>
    /\ starts = 0
    /\ moveLog = <<>>
    /\ probe = NoProbe

\* the steps the calls of moveToElement among cs were made for
RECURSIVE MovedSteps(_)
MovedSteps(cs) ==
    IF cs = <<>> THEN <<>>
    ELSE IF Head(cs).op = "moveToElement"
    THEN <<Head(cs).step>> \o MovedSteps(Tail(cs))
    ELSE MovedSteps(Tail(cs))

ForwardKeys == {"Enter", "ArrowRight"}

\* the moves of the handler that ran are logged; start begins a new log
Log ==
    /\ moveLog' = IF starts' # starts
                  THEN MovedSteps(calls')
                  ELSE moveLog \o MovedSteps(calls')
    /\ UNCHANGED probe

ForwardNext ==
    \/ starts = 0 /\ StartWith(NonEmpty(Arrays(StepKinds \cup UrlStepKinds))) /\ Log
    \/ Click /\ Log
    \/ (\E key \in ForwardKeys : Press(key)) /\ Log
    \/ MoveTimer /\ Log
    \/ Frame /\ Log
    \/ RevealTimer /\ Log
    \/ DOMContentLoaded /\ Log
    \/ RunTimer /\ Log
    \/ PageLoad /\ Log

ForwardSpec == NavInit /\ [][ForwardNext]_vars

(***************************************************************************)
(* Properties.                                                             *)
(***************************************************************************)
\* the handler that ran last called op with arg
HasCall(cs, op, arg) == \E i \in 1..Len(cs) : cs[i].op = op /\ cs[i].arg = arg

\* the pointer and its note are hidden
Hidden(p) == p.pointerEl.display = "none" /\ p.noteEl.display = "none"

\* C1: in a tour over existing targets driven only by clicks on the current
\* target, the click on step i's target requests the move to step i+1's
\* target (and only advances by one); the click on the last step's target
\* ends the flow: not running, pointer hidden, body overflow as before start.
C1_ClickAdvancesThenEnds ==
    [][ClickCurrent =>
        LET i == fm.currentStep
            n == Len(fm.steps)
        IN  /\ fm'.currentStep = i + 1
            /\ fm'.steps = fm.steps
            /\ IF i + 1 < n
               THEN /\ fm'.running
                    /\ HasCall(calls', "moveToElement", fm.steps[i + 2].element)
                    /\ env'.moveTimers =
                           Append(env.moveTimers,
                                  [target |-> fm.steps[i + 2].element,
                                   note |-> fm.steps[i + 2].note,
                                   isFirstStep |-> FALSE])
               ELSE /\ ~fm'.running
                    /\ Hidden(ptr')
                    /\ env'.bodyOverflow = PageOverflow
                    /\ env'.moveTimers = env.moveTimers]_vars

\* C1 witness: a two-step tour ended by its second click
C1_Witness ==
    /\ starts = 1
    /\ Len(fm.steps) = 2
    /\ fm.steps[1].element # fm.steps[2].element
    /\ fm.currentStep = 2
    /\ ~fm.running
    /\ Hidden(ptr)
    /\ env.bodyOverflow = PageOverflow

\* the steps of a list whose target exists, as indexes from 0, in order
RECURSIVE ExistingFrom(_, _)
ExistingFrom(steps, k) ==
    IF k >= Len(steps) THEN <<>>
    ELSE IF querySelector(steps[k + 1].element) # "null"
    THEN <<k>> \o ExistingFrom(steps, k + 1)
    ELSE ExistingFrom(steps, k + 1)

\* a forward-driven tour that has run from start to its automatic stop
RanToStop == starts = 1 /\ fm.steps # <<>> /\ ~fm.running

\* no step of the list asks for a navigation from the current page
NoNavigation(steps) ==
    \A k \in 1..Len(steps) : steps[k].url = "" \/ steps[k].url = env.pathname

CallFor(c, steps) ==
    /\ c.step < Len(steps)
    /\ c.arg = steps[c.step + 1].element

\* C3: a step whose selector matches no element gets a warning and no show,
\* moveToElement or click listener; the call that warned goes on to the next
\* step at once, so a running flow never waits at a missing target.
C3_MissingStepSkipped ==
    /\ \A i \in 1..Len(calls) :
          LET c == calls[i] IN
          /\ c.op \in {"show", "moveToElement", "addEventListener"}
                => /\ c.step < Len(fm.steps)
                   /\ querySelector(fm.steps[c.step + 1].element) # "null"
                   /\ c.op # "show" => CallFor(c, fm.steps)
          /\ (c.op = "warn" /\ c.arg \in Selectors)
                => /\ CallFor(c, fm.steps)
                   /\ querySelector(c.arg) = "null"
                   /\ i < Len(calls)
                   /\ calls[i + 1].step = c.step + 1
                   /\ calls[i + 1].op \in {"show", "warn", "stop"}
    /\ fm.running =>
          /\ fm.currentStep < Len(fm.steps)
          /\ querySelector(fm.steps[fm.currentStep + 1].element) # "null"

\* C3 witness: start([missing, a]) has warned for step 1 and gone on to
\* point at #a in the same call
C3_Witness ==
    /\ fm.running
    /\ fm.currentStep = 1
    /\ Len(calls) = 4
    /\ calls[1] = [op |-> "warn", arg |-> "#missing", step |-> 0]
    /\ calls[2].op = "show"
    /\ calls[3] = [op |-> "moveToElement", arg |-> "#a", step |-> 1]
    /\ calls[4] = [op |-> "addEventListener", arg |-> "#a", step |-> 1]

\* C4 as claimed: whenever the flow is stopped, document.body.style.overflow
\* is the value it had before the flow disabled scrolling, for every sequence
\* of start and stop calls, start while running included.
C4_Original == ~fm.running => env.bodyOverflow = PageOverflow

\* C5: the step index has just reached the end of the list
ReachedEnd ==
    /\ fm'.steps # <<>>
    /\ fm'.currentStep >= Len(fm'.steps)
    /\ (fm.currentStep < Len(fm.steps) \/ StartWith(NonEmpty(StepLists)))

\* C5 as claimed: whenever the step index reaches steps.length, by whatever
\* route, the flow has stopped: not running, pointer hidden, body overflow
\* restored and no keyboard handler attached.
C5_Original ==
    [][ReachedEnd =>
        /\ ~fm'.running
        /\ Hidden(ptr')
        /\ env'.bodyOverflow = PageOverflow
        /\ env'.keydownListeners = 0]_vars

\* C6 as claimed: when the 300 ms timer of a second moveToElement fires while
\* the animation of a first is in progress, the request is dropped with no
\* effect: position, in-flight animation and note stay those of the first.
C6_Original == [][MoveTimer /\ ptr.animating => ptr' = ptr]_vars

\* start is called with no array or with an empty one
StartInvalid == StartMalformed \/ StartWith({<<>>})

\* C7: start with something that is no array, or with an empty array, warns
\* and changes nothing of the manager, the pointer or the page, also while a
\* flow is running.
C7_InvalidStartIsNoOp ==
    [][StartInvalid =>
        /\ fm' = fm
        /\ ptr' = ptr
        /\ env' = env
        /\ calls' = <<[op |-> "warn", arg |-> "No onboarding steps provided.",
                       step |-> fm.currentStep]>>]_vars

\* C7 witness: the warning was the whole effect of a start called with
\* nothing to run while a flow was running at its second step
C7_Witness ==
    /\ fm.running
    /\ fm.currentStep = 1
    /\ env.bodyOverflow = "hidden"
    /\ calls = <<[op |-> "warn", arg |-> "No onboarding steps provided.",
                  step |-> 1]>>

\* the first step of a list whose target exists, from 0; its length if none
FirstExisting(steps) ==
    IF ExistingFrom(steps, 0) = <<>> THEN Len(steps)
    ELSE Head(ExistingFrom(steps, 0))

\* start is called with steps to run on a flow that is not running
Restart == ~fm.running /\ StartWith(NonEmpty(StepLists))

\* never more than one keydown handler attached, and none while stopped
AtMostOneKeyHandler ==
    /\ env.keydownListeners <= 1
    /\ ~fm.running => env.keydownListeners = 0

KeyEffect(s, key) ==
    IF ~s.fm.running \/ ~s.fm.keyboardNavigation THEN s
    ELSE IF key \in {"ArrowRight", "Enter"}
    THEN runStep([s EXCEPT !.fm.currentStep = @ + 1])
    ELSE IF key = "ArrowLeft"
    THEN IF s.fm.currentStep = 0 THEN s
         ELSE runStep([s EXCEPT !.fm.currentStep = @ - 1])
    ELSE IF key = "Escape" THEN stop(s)
    ELSE s

\* C10 as claimed: a keydown of ArrowRight or Enter advances the index by one
\* and re-runs the step, ArrowLeft steps back by one and re-runs (nothing at
\* index 0), Escape stops, any other key does nothing; no key does anything
\* when the flow is not running or keyboardNavigation is off.
C10_Original ==
    [][\A key \in Keys :
          Press(key) =>
              /\ fm' = KeyEffect(Begin, key).fm
              /\ ptr' = KeyEffect(Begin, key).ptr
              /\ env' = KeyEffect(Begin, key).env]_vars

\* the current step of a running flow asks for a navigation
AtUrlStep ==
    /\ fm.running
    /\ fm.currentStep < Len(fm.steps)
    /\ fm.steps[fm.currentStep + 1].url # ""

\* C11 as claimed: at a step whose url differs from the page's path runStep
\* navigates, requests no move, attaches no click listener and keeps the
\* index; the flow runs the same step again, once, after the load of the next
\* page; at a step whose url is the page's path runStep runs the step as if
\* it had no url.
C11_Original ==
    /\ [](AtUrlStep =>
            LET step == fm.steps[fm.currentStep + 1]
                r == runStep(Begin)
            IN  IF step.url # env.pathname
                THEN /\ r.env.href = step.url
                     /\ r.calls = <<>>
                     /\ r.env.clickListeners = env.clickListeners
                     /\ r.env.moveTimers = env.moveTimers
                     /\ r.fm.currentStep = fm.currentStep
                ELSE LET plain == runStep([Begin EXCEPT
                                     !.fm.steps[fm.currentStep + 1].url = ""])
                     IN  /\ r.calls = plain.calls
                         /\ r.env = plain.env
                         /\ r.ptr = plain.ptr
                         /\ r.fm.currentStep = plain.fm.currentStep
                         /\ r.fm.running = plain.fm.running)
    /\ [][PageLoad =>
            /\ fm'.running
            /\ fm'.steps = fm.steps
            /\ fm'.currentStep = fm.currentStep
            /\ env'.pathname = fm.steps[fm.currentStep + 1].url
            /\ env'.loadListeners = 1]_vars

\* the array has an entry that is no usable step
Malformed(steps) == \E k \in 1..Len(steps) : steps[k] \in MalformedStepKinds

\* C12 as claimed: no handler throws, and start with an array that has an
\* entry that is no usable step warns and does not start the flow.
C12_Original ==
    /\ [](\A i \in 1..Len(calls) : calls[i].op # "throw")
    /\ [][StartWith({l \in AnyArrays : Malformed(l)}) =>
            /\ calls'[1].op = "warn"
            /\ fm' = fm
            /\ env' = env]_vars

\* C13: the module's manager, once made, stays the manager it is, and it
\* makes at most one Pointer overlay, which no call or event replaces or
\* removes: once the manager has its Pointer it keeps it, and no further
\* overlay is created.
C13_OnePointer ==
    /\ [](/\ env.overlays <= 1
          /\ (fm.pointer # "null") = (env.overlays = 1)
          /\ (env.flowManager = "null" => fm.pointer = "null"))
    /\ [][/\ (env.flowManager # "null" =>
                /\ env'.flowManager = env.flowManager
                /\ fm'.pointerOptions = fm.pointerOptions
                /\ fm'.keyboardNavigation = fm.keyboardNavigation)
           /\ (fm.pointer # "null" =>
                /\ fm'.pointer = fm.pointer
                /\ env'.overlays = env.overlays
                /\ ptr'.options = ptr.options)]_vars

\* C13 witness: a second startOnboarding, with an event, on the manager whose
\* first flow has stopped runs with the one overlay there is
C13_Witness ==
    /\ starts = 2
    /\ env.flowManager = "FlowManager"
    /\ fm.running
    /\ env.overlays = 1
    /\ ptr.currentX = 60 - 16
    /\ env.clickListeners["#a"] = 1 /\ env.clickListeners["#b"] = 1

\* half of the configured pointer size
HalfIcon(p) == p.options.pointerSize \div 2

\* C14 as claimed: startOnboarding with a triggering event leaves the pointer,
\* before any animation, at (clientX - half-icon, clientY - half-icon), the
\* half of the pointer size the pointer was configured with.
C14_Original ==
    [][\A steps \in StepLists, pointerOptions \in PointerOptions,
          e \in EventPoints :
          StartOnboardingCall(steps, pointerOptions, TRUE, e.x, e.y, TRUE) =>
              /\ ptr'.currentX = e.x - HalfIcon(ptr')
              /\ ptr'.currentY = e.y - HalfIcon(ptr')
              /\ ptr'.pointerEl.left = e.x - HalfIcon(ptr')
              /\ ptr'.pointerEl.top = e.y - HalfIcon(ptr')]_vars

\* C15: setInitialPosition(x, y) puts the pointer's position, and its
\* element, at (x, y) and changes nothing else: no animation or timer is
\* started and the busy flag and the visibility stay as they are; and from
\* then on the position changes only when an animation completes or
\* setInitialPosition is called again.
C15_SetInitialPosition ==
    /\ [][\A e \in InitialPositions :
            PtrSetInitialPositionAt(e.x, e.y) =>
                /\ ptr' = [ptr EXCEPT !.currentX = e.x, !.currentY = e.y,
                                      !.pointerEl.left = e.x,
                                      !.pointerEl.top = e.y]
                /\ env' = env]_vars
    /\ [][ptr'.currentX # ptr.currentX \/ ptr'.currentY # ptr.currentY =>
            \/ ptr.animating /\ ~ptr'.animating
            \/ PtrSetInitialPosition]_vars

\* C15 witness: a hidden pointer that has never been animated is at the
\* position set, still hidden
C15_Witness ==
    /\ ptr.currentX = 100 /\ ptr.currentY = 200
    /\ ptr.pointerEl.left = 100 /\ ptr.pointerEl.top = 200
    /\ ptr.pointerEl.display = "none"
    /\ ptr.noteEl.textContent = ""
    /\ ~ptr.animating
    /\ env.moveTimers = <<>>
    /\ calls = <<>>

\* C16: hide() hides the pointer and the note and changes nothing else;
\* show() shows the pointer and changes nothing else; so hide() followed by
\* show() leaves the pointer visible at the position it had before hide().
C16_HideThenShow ==
    /\ [][PtrHide => ptr' = [ptr EXCEPT !.pointerEl.display = "none",
                                        !.noteEl.display = "none"]]_vars
    /\ [][PtrShow => ptr' = [ptr EXCEPT !.pointerEl.display = "block"]]_vars
    /\ [](LET shown == show(hide(Begin)).ptr
          IN  /\ hide(Begin).ptr.pointerEl.display = "none"
              /\ hide(Begin).ptr.noteEl.display = "none"
              /\ shown.pointerEl.display = "block"
              /\ shown.currentX = ptr.currentX
              /\ shown.currentY = ptr.currentY
              /\ shown.pointerEl.left = ptr.pointerEl.left
              /\ shown.pointerEl.top = ptr.pointerEl.top)

\* C16 witness: a pointer that was animated to #a with its note, hidden and
\* shown again is visible at #a, its note still hidden
C16_Witness ==
    /\ calls = <<[op |-> "show", arg |-> "", step |-> 0]>>
    /\ ptr.pointerEl.display = "block"
    /\ ptr.noteEl.display = "none"
    /\ ptr.noteEl.visibility = "visible"
    /\ ptr.noteEl.textContent = "A"
    /\ ~ptr.animating
    /\ env.moveTimers = <<>>
    /\ ptr.currentX = PointerX(PageRect("#a"), ptr.options.pointerSize, ViewportWidth)
    /\ ptr.pointerEl.left = ptr.currentX

\* the viewport has room for the pointer between its margins
RoomForPointer(v, size) ==
    v.width >= size + 2 * margin /\ v.height >= size + 2 * margin

\* C17: for every target rectangle, in a viewport at least pointerSize +
\* 2 * margin wide and high, the position moveToElement computes lies within
\* the margins: margin <= pointerX <= viewportWidth - pointerSize - margin and
\* margin <= pointerY <= viewportHeight - pointerSize - margin.
C17_PointerClamped ==
    probe.phase \in {"placed", "drawn"} /\ RoomForPointer(probe.viewport, probe.size) =>
        /\ margin <= probe.x
        /\ probe.x <= probe.viewport.width - probe.size - margin
        /\ margin <= probe.y
        /\ probe.y <= probe.viewport.height - probe.size - margin

\* C17 witness: a target beyond the right edge and above the top of the
\* viewport has its position clamped at the right and at the top margin
C17_Witness ==
    /\ probe.phase = "placed"
    /\ RoomForPointer(probe.viewport, probe.size)
    /\ probe.rect.right - probe.size > probe.viewport.width - probe.size - margin
    /\ probe.x = probe.viewport.width - probe.size - margin
    /\ probe.flip
    /\ probe.rect.top - probe.size - margin < margin
    /\ probe.y = margin

\* C18 as claimed: the note placed for a pointer position lies within the
\* viewport's margins, for every position, note size and flip state: its
\* left edge >= margin, its right edge <= viewportWidth - margin, its top
\* edge >= margin and its bottom edge <= viewportHeight - margin.
C18_Original ==
    probe.phase = "drawn" =>
        /\ margin <= probe.noteLeft
        /\ probe.noteLeft + probe.note.width <= probe.viewport.width - margin
        /\ margin <= probe.noteTop
        /\ probe.noteTop + probe.note.height <= probe.viewport.height - margin

\* C19: with frames delivered, every animation animateTo accepts completes:
\* the busy flag is raised only by the acceptance of an animation (in the
\* timer callback of moveToElement) and lowered only by the last frame, which
\* leaves the pointer's position at the animation's target; and a raised
\* flag is eventually lowered.
C19_AnimationCompletes ==
    /\ [][~ptr.animating /\ ptr'.animating =>
            /\ MoveTimer
            /\ ptr'.anim.startX = ptr.currentX
            /\ ptr'.anim.startY = ptr.currentY]_vars
    /\ [][ptr.animating /\ ~ptr'.animating =>
            /\ Frame
            /\ ptr'.currentX = ptr.anim.x
            /\ ptr'.currentY = ptr.anim.y
            /\ ptr'.pointerEl.left = ptr.anim.x
            /\ ptr'.pointerEl.top = ptr.anim.y]_vars
    /\ [][ptr.animating /\ ptr'.animating =>
            /\ ptr'.anim.x = ptr.anim.x
            /\ ptr'.anim.y = ptr.anim.y]_vars
    /\ (ptr.animating ~> ~ptr.animating)

\* C19 witness: the animation to #b has completed and the pointer is there
C19_Witness ==
    /\ ~ptr.animating
    /\ ptr.anim = NoAnim
    /\ ptr.currentX = PointerX(PageRect("#b"), ptr.options.pointerSize, ViewportWidth)
    /\ ptr.currentY = PointerY(PageRect("#b"), TRUE, ptr.options.pointerSize,
                               ViewportHeight)
    /\ ptr.pointerEl.left = ptr.currentX
    /\ ptr.pointerEl.top = ptr.currentY
    /\ ptr.noteEl.display = "block"
    /\ ptr.noteEl.textContent = "A"

\* C20 as claimed: after stop() and a new start(), a click on an element that
\* is not the current step's target, such as the target the stopped flow was
\* waiting at, does not change the step index of the new flow.
C20_Original ==
    [][\A el \in Elements :
          /\ starts = 2
          /\ fm.running
          /\ el # fm.steps[fm.currentStep + 1].element
          /\ ClickOn(el)
          => fm'.currentStep = fm.currentStep]_vars

\* the target of the current step of a running flow
CurrentTarget == fm.steps[fm.currentStep + 1].element

\* C21 as claimed: while a flow is running at most one click listener of the
\* flow is attached, and it is on the current step's target; a click on any
\* other element leaves the step index alone, and a click on the current
\* target advances the flow as one advanceStep does.
C21_Original ==
    /\ [](fm.running =>
            \A el \in Elements :
                env.clickListeners[el] <=
                    IF el = CurrentTarget THEN 1 ELSE 0)
    /\ [][\A el \in Elements :
            fm.running /\ ClickOn(el) =>
                IF el = CurrentTarget
                THEN fm' = advanceStep(Begin).fm
                ELSE fm'.currentStep = fm.currentStep]_vars

\* the note can be seen: displayed, visible and placed by a frame
NoteVisible(p) ==
    /\ p.noteEl.display # "none"
    /\ p.noteEl.left # OffScreen
    /\ p.noteEl.visibility = "visible"
    /\ p.noteEl.opacity = "1"

\* C22 as claimed: once stop() has run, the flow stays not running until the
\* next start and, until then, the pointer stays hidden and the note is not
\* to be seen, whatever timers, frames, clicks and keys come afterwards.
C22_Original ==
    /\ [][~fm.running /\ fm'.running => starts' = starts + 1]_vars
    /\ [](~fm.running /\ fm.pointer # "null" =>
            /\ ptr.pointerEl.display = "none"
            /\ ~NoteVisible(ptr))

\* one key press moves the step index by at most one
OneStepPerKey ==
    \A key \in Keys :
        Press(key) =>
            /\ fm'.currentStep <= fm.currentStep + 1
            /\ fm'.currentStep >= fm.currentStep - 1

\* C23 as claimed: in every reachable state, under any start and stop calls
\* (also start while running), at most one keydown handler of the manager is
\* attached to the window, and none while the flow is not running; one key
\* press to a flow over existing targets moves the index by at most one.
C23_Original ==
    /\ [](env.keydownListeners <= 1)
    /\ [](~fm.running => env.keydownListeners = 0)
    /\ [][(\A k \in 1..Len(fm.steps) :
               querySelector(fm.steps[k].element) # "null") =>
            OneStepPerKey]_vars

\* the position moveToElement computes for the target of a step
StepPosition(step) ==
    LET rect == getBoundingClientRect(querySelector(step.element), env.scrollY)
        noteHeight == IF step.note # "" /\ offsetHeight(step.note) # 0
                      THEN offsetHeight(step.note) ELSE DefaultNoteHeight
        size == ptr.options.pointerSize
        flip == Flip(rect, noteHeight, size, ViewportHeight)
    IN  [x |-> PointerX(rect, size, ViewportWidth),
         y |-> PointerY(rect, flip, size, ViewportHeight)]

\* C24 as claimed: whenever the flow is running and the pointer is at rest
\* (no animation in flight, no move timer pending), the pointer is at the
\* position computed for the current step's target and the note shows the
\* current step's note.
C24_Original ==
    fm.running /\ ~ptr.animating /\ env.moveTimers = <<>> =>
        LET step == fm.steps[fm.currentStep + 1]
        IN  /\ ptr.currentX = StepPosition(step).x
            /\ ptr.currentY = StepPosition(step).y
            /\ ptr.noteEl.textContent = step.note

\* the handler that ran may lower the step index: ArrowLeft, or start
MayGoBack == Press("ArrowLeft") \/ Start

\* C25 as claimed: in every reachable state 0 <= currentStep <= steps.length,
\* a running flow has currentStep < steps.length, and the index decreases
\* only by ArrowLeft or by the reset in start.
C25_Original ==
    /\ [](0 <= fm.currentStep /\ fm.currentStep <= Len(fm.steps))
    /\ [](fm.running => fm.currentStep < Len(fm.steps))
    /\ [][fm'.currentStep < fm.currentStep => MayGoBack]_vars

====
